---- MODULE Spec2Model ----
(***************************************************************************)
(* Model of version_checker.py: the versions-table parser, the version     *)
(* resolver, the outdated comparator, the issue reconciler and the         *)
(* orchestrating main loop.                                                *)
(*                                                                         *)
(* Text is modelled at character level: a Python str is a sequence of      *)
(* one-character strings, so that strip, split, startswith, the regular    *)
(* expressions, lower, lstrip and string formatting are computed as the    *)
(* code computes them.                                                     *)
(***************************************************************************)
EXTENDS Integers, Sequences, FiniteSets, Bags, TLC

VARIABLES
    pc,             \* position of main: start, parse, loop, compare, search, create, done, exited
    token_ok,       \* args.github_token is non-empty
    file_exists,    \* os.path.exists(args.versions_file)
    dry_run,        \* args.dry_run
    content,        \* text of the versions file
    plugins,        \* list returned by parse_readme
    i,              \* 1-based index of the plugin the for loop is at
    latest,         \* value of `latest` in the current iteration
    updates_found,  \* counter of main
    errors,         \* counter of main
    exit_code,      \* process exit status, -1 while the process runs
    tracker,        \* bag of titles of the open issues labelled version-update
    cur,            \* what the current iteration has done so far (history)
    hist,           \* what has happened in this run so far (history)
    answer,         \* what the hosting service answered the resolver in the last step (history)
    run             \* number of the current run of the tool

vars == <<pc, token_ok, file_exists, dry_run, content, plugins, i, latest,
          updates_found, errors, exit_code, tracker, cur, hist, answer, run>>

\* Python's None where a str is expected: no str of the model is equal to it
None == <<"None">>

\* ------------------------------------------------------------------ bounds

\* Rows of the versions table in the orchestrator specification.
MaxPlugins == 2
\* Consecutive runs of the tool against the same tracker.
MaxRuns == 2
\* Lines of the versions file in the parser specification.
MaxLines == 3

\* --------------------------------------------------------- str operations

Whitespace == {" ", "\t", "\n", "\r"}

Min(S) == CHOOSE x \in S : \A y \in S : x <= y
Max(S) == CHOOSE x \in S : \A y \in S : x >= y

\* str.startswith
StartsWith(s, p) == Len(s) >= Len(p) /\ SubSeq(s, 1, Len(p)) = p

\* `p in s` for strings
Contains(s, p) ==
    \E k \in 1..(Len(s) - Len(p) + 1) : SubSeq(s, k, k + Len(p) - 1) = p

\* str.strip()
Strip(s) ==
    LET keep == {k \in 1..Len(s) : s[k] \notin Whitespace}
    IN  IF keep = {} THEN <<>> ELSE SubSeq(s, Min(keep), Max(keep))

\* str.rstrip(c) for a one-character c
RStripChar(s, c) ==
    LET keep == {k \in 1..Len(s) : s[k] # c}
    IN  IF keep = {} THEN <<>> ELSE SubSeq(s, 1, Max(keep))

\* str.lstrip(c) for a one-character c: every leading c is removed
LStripChar(s, c) ==
    LET keep == {k \in 1..Len(s) : s[k] # c}
    IN  IF keep = {} THEN <<>> ELSE SubSeq(s, Min(keep), Len(s))

\* str.split(d) for a one-character d
RECURSIVE Split(_, _)
Split(s, d) ==
    LET at == {k \in 1..Len(s) : s[k] = d}
    IN  IF at = {} THEN <<s>>
        ELSE <<SubSeq(s, 1, Min(at) - 1)>> \o Split(SubSeq(s, Min(at) + 1, Len(s)), d)

\* d.join(parts) for a one-character d
RECURSIVE Join(_, _)
Join(parts, d) ==
    IF parts = <<>> THEN <<>>
    ELSE IF Len(parts) = 1 THEN parts[1]
    ELSE parts[1] \o <<d>> \o Join(Tail(parts), d)

UpperLetters == <<"A","B","C","D","E","F","G","H","I","J","K","L","M",
                  "N","O","P","Q","R","S","T","U","V","W","X","Y","Z">>
LowerLetters == <<"a","b","c","d","e","f","g","h","i","j","k","l","m",
                  "n","o","p","q","r","s","t","u","v","w","x","y","z">>

\* str.lower()
Lower(s) ==
    [k \in 1..Len(s) |->
        IF \E u \in 1..Len(UpperLetters) : UpperLetters[u] = s[k]
        THEN LowerLetters[CHOOSE u \in 1..Len(UpperLetters) : UpperLetters[u] = s[k]]
        ELSE s[k]]

Digits == <<"0","1","2","3","4","5","6","7","8","9">>
IsDigit(c) == \E d \in 1..Len(Digits) : Digits[d] = c
DigitValue(c) == (CHOOSE d \in 1..Len(Digits) : Digits[d] = c) - 1

HexLower == {"0","1","2","3","4","5","6","7","8","9","a","b","c","d","e","f"}

\* Minimum length of a commit identifier, the 7 of {7,}
MinHashLen == 7
\* Length of the short hash, the 7 of sha[:7]
ShortHashLen == 7

\* re.match(r'^[0-9a-f]{7,}$', s) on a stripped cell
MatchesCommitHash(s) ==
    /\ Len(s) >= MinHashLen
    /\ \A k \in 1..Len(s) : s[k] \in HexLower

\* ------------------------------------------------------------ parse_readme

HeaderPrefix == <<"|"," ","P","l","u","g","i","n">>
SeparatorPrefix == <<"|"," ","-","-","-">>
RowMarker == <<"|">>
NoSrcMarker == <<"*","*","N","O"," ","S","R","C","*","*">>
GithubHost == <<"g","i","t","h","u","b",".","c","o","m","/">>

\* xs[1:-1]
DropFirstAndLast(xs) == SubSeq(xs, 2, Len(xs) - 1)

\* [cell.strip() for cell in line.split('|')[1:-1]]
Cells(line) ==
    LET raw == DropFirstAndLast(Split(line, "|"))
    IN  [k \in 1..Len(raw) |-> Strip(raw[k])]

\* The result of a re.search that found nothing
NoMatch == [matched |-> FALSE, group1 |-> <<>>, group2 |-> <<>>]

\* Positions after `from` where s holds the character c
After(s, from, c) == {k \in (from + 1)..Len(s) : s[k] = c}

\* A match of \[([^\]]+)\]\(([^\)]+)\) starting exactly at position p
LinkMatchesAt(s, p) ==
    /\ s[p] = "["
    /\ After(s, p, "]") # {}
    /\ LET rb == Min(After(s, p, "]"))
       IN  /\ rb > p + 1
           /\ rb + 1 <= Len(s)
           /\ s[rb + 1] = "("
           /\ After(s, rb + 1, ")") # {}
           /\ Min(After(s, rb + 1, ")")) > rb + 2

\* re.search(r'\[([^\]]+)\]\(([^\)]+)\)', s): None, or groups 1 and 2 of the
\* leftmost match
SearchLink(s) ==
    LET starts == {p \in 1..Len(s) : LinkMatchesAt(s, p)}
    IN  IF starts = {} THEN NoMatch
        ELSE LET p  == Min(starts)
                 rb == Min(After(s, p, "]"))
                 rp == Min(After(s, rb + 1, ")"))
             IN  [matched |-> TRUE,
                  group1  |-> SubSeq(s, p + 1, rb - 1),
                  group2  |-> SubSeq(s, rb + 2, rp - 1)]

\* A match of github\.com/([^/]+)/([^/]+) starting exactly at position p
GithubMatchesAt(s, p) ==
    /\ p + Len(GithubHost) - 1 <= Len(s)
    /\ SubSeq(s, p, p + Len(GithubHost) - 1) = GithubHost
    /\ LET o == p + Len(GithubHost) - 1       \* position of the '/' after the host
       IN  /\ After(s, o, "/") # {}
           /\ LET sl == Min(After(s, o, "/"))
              IN  /\ sl > o + 1
                  /\ sl + 1 <= Len(s)
                  /\ s[sl + 1] # "/"

\* re.search(r'github\.com/([^/]+)/([^/]+)', s): None, or groups 1 and 2
SearchGithub(s) ==
    LET starts == {p \in 1..Len(s) : GithubMatchesAt(s, p)}
    IN  IF starts = {} THEN NoMatch
        ELSE LET p    == Min(starts)
                 o    == p + Len(GithubHost) - 1
                 sl   == Min(After(s, o, "/"))
                 stop == IF After(s, sl, "/") = {} THEN Len(s) + 1
                         ELSE Min(After(s, sl, "/"))
             IN  [matched |-> TRUE,
                  group1  |-> SubSeq(s, o + 1, sl - 1),
                  group2  |-> SubSeq(s, sl + 1, stop - 1)]

\* Mutant: any cell that holds a hash makes the row commit-tracked
IsCommitHashMut_AnyCell(versions) ==
    \E k \in 1..Len(versions) : versions[k] # <<>> /\ MatchesCommitHash(versions[k])

\* bool(versions[0] and re.match(r'^[0-9a-f]{7,}$', versions[0]))
IsCommitHash(versions) ==
    versions[1] # <<>> /\ MatchesCommitHash(versions[1])

\* The body of the loop for one table row: the records it appends (none or one)
ParseRow(line) ==
    LET cells == Cells(line)
    IN  IF Len(cells) < 2 THEN <<>>
        ELSE LET plugin_cell   == cells[1]
                 version_cells == Tail(cells)
             IN  IF Contains(plugin_cell, NoSrcMarker) THEN <<>>
                 ELSE LET url_match == SearchLink(plugin_cell)
                      IN  IF ~url_match.matched THEN <<>>
                          ELSE LET plugin_name  == url_match.group1
                                   github_url   == RStripChar(url_match.group2, "/")
                                   github_match == SearchGithub(github_url)
                               IN  IF ~github_match.matched THEN <<>>
                                   ELSE LET versions ==
                                                [k \in 1..Len(version_cells) |->
                                                    Strip(version_cells[k])]
                                        IN  << [name           |-> plugin_name,
                                                github_url     |-> github_url,
                                                owner          |-> github_match.group1,
                                                repo           |-> github_match.group2,
                                                versions       |-> versions,
                                                is_commit_hash |-> IsCommitHash(versions)] >>

\* The for loop over content.split('\n'), from line k on, with the loop's state
RECURSIVE ScanLines(_, _, _, _)
ScanLines(lines, k, in_table, acc) ==
    IF k > Len(lines) THEN acc
    ELSE LET line == Strip(lines[k])
         IN  IF StartsWith(line, HeaderPrefix) \/ StartsWith(line, SeparatorPrefix)
             THEN ScanLines(lines, k + 1, TRUE, acc)
             ELSE IF in_table /\ ~StartsWith(line, RowMarker)
             THEN acc
             ELSE IF in_table /\ StartsWith(line, RowMarker)
             THEN ScanLines(lines, k + 1, in_table, acc \o ParseRow(line))
             ELSE ScanLines(lines, k + 1, in_table, acc)

\* The same loop with the `break` at the table boundary left out
RECURSIVE ScanLinesNoBreak(_, _, _, _)
ScanLinesNoBreak(lines, k, in_table, acc) ==
    IF k > Len(lines) THEN acc
    ELSE LET line == Strip(lines[k])
         IN  IF StartsWith(line, HeaderPrefix) \/ StartsWith(line, SeparatorPrefix)
             THEN ScanLinesNoBreak(lines, k + 1, TRUE, acc)
             ELSE IF in_table /\ StartsWith(line, RowMarker)
             THEN ScanLinesNoBreak(lines, k + 1, in_table, acc \o ParseRow(line))
             ELSE ScanLinesNoBreak(lines, k + 1, in_table, acc)

\* Mutant: the scan does not stop at the table boundary
parse_readmeMut_NoBreak(text) == ScanLinesNoBreak(Split(text, "\n"), 1, FALSE, <<>>)

parse_readme(text) == ScanLines(Split(text, "\n"), 1, FALSE, <<>>)

\* ------------------------------------------------------ get_latest_version

\* What the hosting service answers during one call of get_latest_version:
\*   repo    "ok" | "error"              gh.get_repo
\*   commits [ok, sha]                   repo.get_commits(...)[0].sha, or a
\*                                       GithubException
\*   release [ok, tag, status]           repo.get_latest_release: the release's
\*                                       tag_name, or a GithubException with
\*                                       that status
\*   tags    [ok, names]                 repo.get_tags, or a GithubException
StatusNotFound == 404
OtherStatuses == {500}

get_latest_version(resp, plugin) ==
    IF resp.repo = "error" THEN None
    ELSE IF plugin.is_commit_hash
    THEN IF ~resp.commits.ok THEN None
         ELSE LET sha == resp.commits.sha
                  n   == IF Len(sha) < ShortHashLen THEN Len(sha) ELSE ShortHashLen
              IN  SubSeq(sha, 1, n)
    ELSE IF resp.release.ok
    THEN LStripChar(resp.release.tag, "v")
    ELSE IF resp.release.status = StatusNotFound
    THEN IF ~resp.tags.ok THEN None
         ELSE IF Len(resp.tags.names) > 0 THEN LStripChar(resp.tags.names[1], "v")
         ELSE None
    ELSE None

\* The remote operations get_latest_version performs, in order
ResolveCalls(resp, plugin) ==
    <<"get_repo">>
    \o (IF resp.repo = "error" THEN <<>>
        ELSE IF plugin.is_commit_hash THEN <<"get_commits">>
        ELSE <<"get_latest_release">>
             \o (IF ~resp.release.ok /\ resp.release.status = StatusNotFound
                 THEN <<"get_tags">> ELSE <<>>))

\* ----------------------------------------------------- is_version_outdated

RECURSIVE ToInt(_)
ToInt(ds) ==
    IF ds = <<>> THEN 0
    ELSE ToInt(SubSeq(ds, 1, Len(ds) - 1)) * 10 + DigitValue(ds[Len(ds)])

\* The release tuple without its trailing zeros, as Version's comparison key
RECURSIVE DropTrailingZeros(_)
DropTrailingZeros(t) ==
    IF t # <<>> /\ t[Len(t)] = 0 THEN DropTrailingZeros(SubSeq(t, 1, Len(t) - 1))
    ELSE t

\* packaging.version.parse on the strings of this model: an optional 'v', then
\* dot-separated numbers; valid = FALSE stands for InvalidVersion
ParseVersion(s) ==
    LET body  == IF s # <<>> /\ s[1] = "v" THEN Tail(s) ELSE s
        parts == Split(body, ".")
    IN  IF \A k \in 1..Len(parts) :
               parts[k] # <<>> /\ \A d \in 1..Len(parts[k]) : IsDigit(parts[k][d])
        THEN [valid |-> TRUE,
              release |-> DropTrailingZeros([k \in 1..Len(parts) |-> ToInt(parts[k])])]
        ELSE [valid |-> FALSE, release |-> <<>>]

\* Python's tuple `<`
TupleLess(a, b) ==
    \/ \E k \in 1..Len(a) :
          /\ k <= Len(b)
          /\ SubSeq(a, 1, k - 1) = SubSeq(b, 1, k - 1)
          /\ a[k] < b[k]
    \/ Len(a) < Len(b) /\ a = SubSeq(b, 1, Len(a))

\* Mutant: `<=` for `<` in the release comparison
is_version_outdatedMut_LessOrEqual(current, latest_version, is_commit_hash) ==
    IF is_commit_hash THEN Lower(current) # Lower(latest_version)
    ELSE IF ~ParseVersion(current).valid \/ ~ParseVersion(latest_version).valid
    THEN current # latest_version
    ELSE ~TupleLess(ParseVersion(latest_version).release, ParseVersion(current).release)

is_version_outdated(current, latest_version, is_commit_hash) ==
    IF is_commit_hash THEN Lower(current) # Lower(latest_version)
    ELSE IF ~ParseVersion(current).valid \/ ~ParseVersion(latest_version).valid
    THEN current # latest_version
    ELSE TupleLess(ParseVersion(current).release, ParseVersion(latest_version).release)

\* The loop of main that sets any_outdated, from entry k of plugin.versions on
RECURSIVE AnyOutdatedFrom(_, _, _)
AnyOutdatedFrom(plugin, latest_version, k) ==
    IF k > Len(plugin.versions) THEN FALSE
    ELSE IF /\ plugin.versions[k] # <<>>
            /\ is_version_outdated(plugin.versions[k], latest_version,
                                   plugin.is_commit_hash)
    THEN TRUE
    ELSE AnyOutdatedFrom(plugin, latest_version, k + 1)

\* ---------------------------------------------------------- the reconciler

UpdatePrefix == <<"U","p","d","a","t","e"," ">>
ToInfix == <<" ","t","o"," ">>

\* f"Update {plugin_name} to {new_version}"
IssueTitle(plugin_name, new_version) ==
    UpdatePrefix \o plugin_name \o ToInfix \o new_version

IssueLabels == <<"version-update", "automated">>

\* Mutant: the title comparison never succeeds
check_for_existing_issueMut_NeverFound(sresp, open_titles, plugin_name, new_version) ==
    FALSE

\* sresp: "repo_error" | "issues_error" | "ok", what the two remote reads do
check_for_existing_issue(sresp, open_titles, plugin_name, new_version) ==
    IF sresp = "ok"
    THEN BagIn(IssueTitle(plugin_name, new_version), open_titles)
    ELSE FALSE

SearchCalls(sresp) ==
    IF sresp = "repo_error" THEN <<"get_repo">> ELSE <<"get_repo", "get_issues">>

\* Mutant: the dry_run branch is missing
create_issueMut_IgnoreDryRun(cresp, plugin, new_version, dry) ==
    LET title == IssueTitle(plugin.name, new_version)
    IN  IF cresp = "repo_error"
        THEN [calls |-> <<"get_repo">>, requests |-> <<>>, added |-> EmptyBag]
        ELSE [calls    |-> <<"get_repo", "create_issue">>,
              requests |-> << [title |-> title, labels |-> IssueLabels] >>,
              added    |-> IF cresp = "ok" THEN SetToBag({title}) ELSE EmptyBag]

\* cresp: "repo_error" | "create_error" | "ok". The result is what create_issue
\* does: the remote operations it performs, the create-issue requests it sends
\* and the issue the tracker gains.
create_issue(cresp, plugin, new_version, dry) ==
    LET title == IssueTitle(plugin.name, new_version)
    IN  IF dry
        THEN [calls |-> <<>>, requests |-> <<>>, added |-> EmptyBag]
        ELSE IF cresp = "repo_error"
        THEN [calls |-> <<"get_repo">>, requests |-> <<>>, added |-> EmptyBag]
        ELSE [calls    |-> <<"get_repo", "create_issue">>,
              requests |-> << [title |-> title, labels |-> IssueLabels] >>,
              added    |-> IF cresp = "ok" THEN SetToBag({title}) ELSE EmptyBag]

\* -------------------------------------------------------------- the inputs

\* | Plugin | 3.2 | 3.2.3 |
HeaderLine ==
    <<"|"," ","P","l","u","g","i","n"," ","|"," ","3",".","2"," ","|"," ","3",".","2",".","3"," ","|">>
\* | --- | --- | --- |
SeparatorLine ==
    <<"|"," ","-","-","-"," ","|"," ","-","-","-"," ","|"," ","-","-","-"," ","|">>
\* | [A](https://github.com/o/a) | 1.0.0 | 1.1.0 |
RowA ==
    <<"|"," ","[","A","]","(","h","t","t","p","s",":","/","/","g","i","t","h","u","b",".","c","o","m","/","o","/","a",")"," ","|"," ","1",".","0",".","0"," ","|"," ","1",".","1",".","0"," ","|">>
\* | [B](https://github.com/o/b/) | abcdef1 | ABCDEF1 |
RowB ==
    <<"|"," ","[","B","]","(","h","t","t","p","s",":","/","/","g","i","t","h","u","b",".","c","o","m","/","o","/","b","/",")"," ","|"," ","a","b","c","d","e","f","1"," ","|"," ","A","B","C","D","E","F","1"," ","|">>
\* | [C](https://github.com/o/c) |  | banana |
RowC ==
    <<"|"," ","[","C","]","(","h","t","t","p","s",":","/","/","g","i","t","h","u","b",".","c","o","m","/","o","/","c",")"," ","|"," "," ","|"," ","b","a","n","a","n","a"," ","|">>
\* | [D](https://github.com/o/d) |  | abcdef1 |
RowBlankFirst ==
    <<"|"," ","[","D","]","(","h","t","t","p","s",":","/","/","g","i","t","h","u","b",".","c","o","m","/","o","/","d",")"," ","|"," "," ","|"," ","a","b","c","d","e","f","1"," ","|">>
\* | **NO SRC** [E](https://github.com/o/e) | 1.0.0 |
RowNoSrc ==
    <<"|"," ","*","*","N","O"," ","S","R","C","*","*"," ","[","E","]","(","h","t","t","p","s",":","/","/","g","i","t","h","u","b",".","c","o","m","/","o","/","e",")"," ","|"," ","1",".","0",".","0"," ","|">>
\* | F | 1.0.0 |
RowNoLink ==
    <<"|"," ","F"," ","|"," ","1",".","0",".","0"," ","|">>
\* | [G](https://gitlab.com/o/g) | 1.0.0 |
RowNotGithub ==
    <<"|"," ","[","G","]","(","h","t","t","p","s",":","/","/","g","i","t","l","a","b",".","c","o","m","/","o","/","g",")"," ","|"," ","1",".","0",".","0"," ","|">>
\* | [H](https://github.com/o/h) |
RowNoVersionCell ==
    <<"|"," ","[","H","]","(","h","t","t","p","s",":","/","/","g","i","t","h","u","b",".","c","o","m","/","o","/","h",")"," ","|">>
\* | [I](https://github.com/o/) | 1.0.0 |
RowOwnerOnly ==
    <<"|"," ","[","I","]","(","h","t","t","p","s",":","/","/","g","i","t","h","u","b",".","c","o","m","/","o","/",")"," ","|"," ","1",".","0",".","0"," ","|">>
\*   | [J](https://github.com/o/j/) | 9abcdef0 |     (indented, trailing blanks)
RowIndented ==
    <<" "," ","|"," ","[","J","]","(","h","t","t","p","s",":","/","/","g","i","t","h","u","b",".","c","o","m","/","o","/","j","/",")"," ","|"," ","9","a","b","c","d","e","f","0"," ","|"," "," ">>
\* Sequences over S of length at most n
SeqUpTo(S, n) == UNION {[1..k -> S] : k \in 0..n}

\* Well-formed versions files: the header, the separator, then the rows
TableRows == {RowA, RowB, RowC}
TableFiles ==
    {Join(<<HeaderLine, SeparatorLine>> \o rows, "\n") : rows \in SeqUpTo(TableRows, MaxPlugins)}

\* Arbitrary versions files, for the parser
AnyLines == {HeaderLine, SeparatorLine, RowA, RowBlankFirst, RowNoSrc, RowNoLink,
             RowNotGithub, RowNoVersionCell, RowOwnerOnly, RowIndented, <<>>}
AnyFiles == {Join(lines, "\n") : lines \in SeqUpTo(AnyLines, MaxLines)}

Tag_v1_1_0 == <<"v","1",".","1",".","0">>
Tag_vv1_1_0 == <<"v","v","1",".","1",".","0">>
Tag_v1_0_0 == <<"v","1",".","0",".","0">>
Sha1 == <<"a","b","c","d","e","f","1","f","0","0">>
Sha2 == <<"a","b","c","d","e","f","2","f","0","0">>

Failed(status) == [ok |-> FALSE, status |-> status, tag |-> <<>>]
Release(tag) == [ok |-> TRUE, status |-> 0, tag |-> tag]
NoCommits == [ok |-> FALSE, sha |-> <<>>]
Commit(sha) == [ok |-> TRUE, sha |-> sha]
NoTags == [ok |-> FALSE, names |-> <<>>]
Tags(names) == [ok |-> TRUE, names |-> names]
NoAnswer ==
    [repo |-> "error", commits |-> NoCommits, release |-> Failed(StatusNotFound),
     tags |-> NoTags]
\* The resolver was not called in the last step
Unasked == [NoAnswer EXCEPT !.repo = "unasked"]

\* The answers the hosting service may give while one plugin is resolved
RemoteAnswers(plugin) ==
    IF plugin.is_commit_hash
    THEN {NoAnswer}
         \cup {[NoAnswer EXCEPT !.repo = "ok", !.commits = c] :
                  c \in {NoCommits, Commit(Sha1), Commit(Sha2)}}
    ELSE {NoAnswer}
         \cup {[NoAnswer EXCEPT !.repo = "ok", !.release = Release(t)] :
                  t \in {Tag_v1_1_0, Tag_vv1_1_0}}
         \cup {[NoAnswer EXCEPT !.repo = "ok", !.release = Failed(s)] :
                  s \in OtherStatuses}
         \cup {[NoAnswer EXCEPT !.repo = "ok", !.tags = ts] :
                  ts \in {NoTags, Tags(<<>>), Tags(<<Tag_v1_0_0, Tag_v1_1_0>>)}}

SearchAnswers == {"repo_error", "issues_error", "ok"}
CreateAnswers == {"repo_error", "create_error", "ok"}

\* ------------------------------------------------------------------- main

NoIteration ==
    [idx |-> 0, latest |-> None, compared |-> FALSE, printed |-> "",
     search |-> "none", create |-> "none", calls |-> <<>>,
     requests |-> <<>>, updates0 |-> 0, errors0 |-> 0, tracker0 |-> EmptyBag,
     done |-> FALSE]

\* resolved, failed: iterations whose get_latest_version returned a version, None
NoHistory == [resolved |-> 0, failed |-> 0]

Init ==
    /\ pc = "start"
    /\ token_ok \in BOOLEAN
    /\ file_exists \in BOOLEAN
    /\ dry_run \in BOOLEAN
    /\ content \in TableFiles
    /\ plugins = <<>>
    /\ i = 1
    /\ latest = None
    /\ updates_found = 0
    /\ errors = 0
    /\ exit_code = -1
    /\ tracker = EmptyBag
    /\ cur = NoIteration
    /\ hist = NoHistory
    /\ answer = Unasked
    /\ run = 1

\* The input validation of main: sys.exit(1) without a token or a versions file
Validate ==
    /\ answer' = Unasked
    /\ pc = "start"
    /\ IF ~token_ok \/ ~file_exists
       THEN pc' = "exited" /\ exit_code' = 1
       ELSE pc' = "parse" /\ exit_code' = exit_code
    /\ UNCHANGED <<token_ok, file_exists, dry_run, content, plugins, i, latest,
                   updates_found, errors, tracker, cur, hist, run>>

\* plugins = parse_readme(...); updates_found = 0; errors = 0
Parse ==
    /\ answer' = Unasked
    /\ pc = "parse"
    /\ plugins' = parse_readme(content)
    /\ updates_found' = 0
    /\ errors' = 0
    /\ i' = 1
    /\ pc' = "loop"
    /\ UNCHANGED <<token_ok, file_exists, dry_run, content, latest, exit_code,
                   tracker, cur, hist, run>>

\* Mutant: `break` for `continue` after a resolution failure
ResolveMut_BreakOnError ==
    /\ pc = "loop"
    /\ i <= Len(plugins)
    /\ \E resp \in RemoteAnswers(plugins[i]) :
          LET l == get_latest_version(resp, plugins[i])
              started == [NoIteration EXCEPT !.idx = i, !.latest = l,
                                             !.calls = ResolveCalls(resp, plugins[i]),
                                             !.updates0 = updates_found,
                                             !.errors0 = errors,
                                             !.tracker0 = tracker]
          IN  /\ latest' = l
              /\ answer' = resp
              /\ IF l = None
                 THEN /\ errors' = errors + 1
                      /\ i' = Len(plugins) + 1
                      /\ pc' = "loop"
                      /\ hist' = [hist EXCEPT !.failed = @ + 1]
                      /\ cur' = [started EXCEPT !.printed = "ERROR", !.done = TRUE]
                 ELSE /\ errors' = errors
                      /\ i' = i
                      /\ pc' = "compare"
                      /\ hist' = [hist EXCEPT !.resolved = @ + 1]
                      /\ cur' = started
    /\ UNCHANGED <<token_ok, file_exists, dry_run, content, plugins, updates_found,
                   exit_code, tracker, run>>

\* The head of an iteration: latest = get_latest_version(gh, plugin), and the
\* `errors += 1; continue` when it is None
Resolve ==
    /\ pc = "loop"
    /\ i <= Len(plugins)
    /\ \E resp \in RemoteAnswers(plugins[i]) :
          LET l == get_latest_version(resp, plugins[i])
              started == [NoIteration EXCEPT !.idx = i, !.latest = l,
                                             !.calls = ResolveCalls(resp, plugins[i]),
                                             !.updates0 = updates_found,
                                             !.errors0 = errors,
                                             !.tracker0 = tracker]
          IN  /\ latest' = l
              /\ answer' = resp
              /\ IF l = None
                 THEN /\ errors' = errors + 1
                      /\ i' = i + 1
                      /\ pc' = "loop"
                      /\ hist' = [hist EXCEPT !.failed = @ + 1]
                      /\ cur' = [started EXCEPT !.printed = "ERROR", !.done = TRUE]
                 ELSE /\ errors' = errors
                      /\ i' = i
                      /\ pc' = "compare"
                      /\ hist' = [hist EXCEPT !.resolved = @ + 1]
                      /\ cur' = started
    /\ UNCHANGED <<token_ok, file_exists, dry_run, content, plugins, updates_found,
                   exit_code, tracker, run>>

\* The any_outdated loop and the branch on it
Compare ==
    /\ answer' = Unasked
    /\ pc = "compare"
    /\ IF AnyOutdatedFrom(plugins[i], latest, 1)
       THEN /\ pc' = "search"
            /\ i' = i
            /\ cur' = [cur EXCEPT !.compared = TRUE, !.printed = "UPDATE AVAILABLE"]
       ELSE /\ pc' = "loop"
            /\ i' = i + 1
            /\ cur' = [cur EXCEPT !.compared = TRUE, !.printed = "OK", !.done = TRUE]
    /\ UNCHANGED <<token_ok, file_exists, dry_run, content, plugins, latest,
                   updates_found, errors, exit_code, tracker, hist, run>>

\* if check_for_existing_issue(...): skip
Search ==
    /\ answer' = Unasked
    /\ pc = "search"
    /\ \E sresp \in SearchAnswers :
          LET found == check_for_existing_issue(sresp, tracker, plugins[i].name, latest)
              searched == [cur EXCEPT !.calls = @ \o SearchCalls(sresp),
                                      !.search = sresp]
          IN  IF found
              THEN /\ pc' = "loop"
                   /\ i' = i + 1
                   /\ cur' = [searched EXCEPT !.done = TRUE]
              ELSE /\ pc' = "create"
                   /\ i' = i
                   /\ cur' = searched
    /\ UNCHANGED <<token_ok, file_exists, dry_run, content, plugins, latest,
                   updates_found, errors, exit_code, tracker, hist, run>>

\* Mutant: updates_found counts only the issues created
CreateMut_CountOnlyCreated ==
    /\ answer' = Unasked
    /\ pc = "create"
    /\ \E cresp \in CreateAnswers :
          LET out == create_issue(cresp, plugins[i], latest, dry_run)
          IN  /\ tracker' = tracker (+) out.added
              /\ cur' = [cur EXCEPT !.calls = @ \o out.calls,
                                    !.requests = @ \o out.requests,
                                    !.create = IF dry_run THEN "dry_run" ELSE cresp,
                                    !.done = TRUE]
              /\ updates_found' = IF dry_run \/ cresp = "ok" THEN updates_found + 1
                                  ELSE updates_found
    /\ i' = i + 1
    /\ pc' = "loop"
    /\ UNCHANGED <<token_ok, file_exists, dry_run, content, plugins, latest,
                   errors, exit_code, hist, run>>

\* else: create_issue(...); updates_found += 1
Create ==
    /\ answer' = Unasked
    /\ pc = "create"
    /\ \E cresp \in CreateAnswers :
          LET out == create_issue(cresp, plugins[i], latest, dry_run)
          IN  /\ tracker' = tracker (+) out.added
              /\ cur' = [cur EXCEPT !.calls = @ \o out.calls,
                                    !.requests = @ \o out.requests,
                                    !.create = IF dry_run THEN "dry_run" ELSE cresp,
                                    !.done = TRUE]
    /\ updates_found' = updates_found + 1
    /\ i' = i + 1
    /\ pc' = "loop"
    /\ UNCHANGED <<token_ok, file_exists, dry_run, content, plugins, latest,
                   errors, exit_code, hist, run>>

\* Mutant: the exit status also reflects the updates found
SummaryMut_UpdatesFail ==
    /\ answer' = Unasked
    /\ pc = "loop"
    /\ i > Len(plugins)
    /\ exit_code' = IF errors > 0 \/ updates_found > 0 THEN 1 ELSE 0
    /\ pc' = "done"
    /\ UNCHANGED <<token_ok, file_exists, dry_run, content, plugins, i, latest,
                   updates_found, errors, tracker, cur, hist, run>>

\* The summary and the exit status
Summary ==
    /\ answer' = Unasked
    /\ pc = "loop"
    /\ i > Len(plugins)
    /\ exit_code' = IF errors > 0 THEN 1 ELSE 0
    /\ pc' = "done"
    /\ UNCHANGED <<token_ok, file_exists, dry_run, content, plugins, i, latest,
                   updates_found, errors, tracker, cur, hist, run>>

\* The tool is run again on the same versions file, against the same tracker
NextRun ==
    /\ answer' = Unasked
    /\ pc = "done"
    /\ run < MaxRuns
    /\ run' = run + 1
    /\ dry_run' \in BOOLEAN
    /\ pc' = "start"
    /\ plugins' = <<>>
    /\ i' = 1
    /\ latest' = None
    /\ updates_found' = 0
    /\ errors' = 0
    /\ exit_code' = -1
    /\ cur' = NoIteration
    /\ hist' = NoHistory
    /\ UNCHANGED <<token_ok, file_exists, content, tracker>>

Next ==
    \/ Validate
    \/ Parse
    \/ Resolve
    \/ Compare
    \/ Search
    \/ Create
    \/ Summary
    \/ NextRun

Spec == Init /\ [][Next]_vars

\* The parser alone, on arbitrary versions files
InitParser ==
    /\ pc = "parse"
    /\ token_ok = TRUE
    /\ file_exists = TRUE
    /\ dry_run = FALSE
    /\ content \in AnyFiles
    /\ plugins = <<>>
    /\ i = 1
    /\ latest = None
    /\ updates_found = 0
    /\ errors = 0
    /\ exit_code = -1
    /\ tracker = EmptyBag
    /\ cur = NoIteration
    /\ hist = NoHistory
    /\ answer = Unasked
    /\ run = 1

ParserSpec == InitParser /\ [][Parse]_vars

\* ============================================================== properties

ReadOperations ==
    {"get_repo", "get_commits", "get_latest_release", "get_tags", "get_issues"}

\* The remote operations of the current iteration, as a set
CallsMade == {cur.calls[k] : k \in 1..Len(cur.calls)}

\* The plugin of the iteration `cur` describes
CurPlugin == plugins[cur.idx]

\* An iteration of the loop has finished and `cur` describes it
IterationDone == cur.idx > 0 /\ cur.done

\* The title of the tracking issue for the current iteration
CurTitle == IssueTitle(CurPlugin.name, cur.latest)

\* An open issue with the title was in the tracker when the iteration began
TitleWasOpen == BagIn(CurTitle, cur.tracker0)

TheRequest == << [title |-> CurTitle, labels |-> <<"version-update", "automated">>] >>

\* C1: in dry-run mode no run ever sends a create-issue request, whatever the
\* table, the resolver results, the search results and the remote failures are;
\* every remote operation performed is a read.
C1_DryRunNeverCreates ==
    dry_run =>
        /\ cur.requests = <<>>
        /\ "create_issue" \notin CallsMade
        /\ CallsMade \subseteq ReadOperations
        /\ tracker = (IF cur.idx > 0 THEN cur.tracker0 ELSE tracker)

\* C1 witness: a dry run went through create_issue for an outdated plugin
C1_Witness ==
    dry_run /\ IterationDone /\ cur.create = "dry_run" /\ cur.printed = "UPDATE AVAILABLE"

\* C2 as stated: not in dry-run, for a resolved outdated plugin, a successful
\* search that finds the title means no create-issue request and no count in
\* updates_found; a successful search that finds none means exactly one request,
\* with the title 'Update <name> to <L>' and the labels version-update, automated.
C2_AsStated ==
    (~dry_run /\ IterationDone /\ cur.printed = "UPDATE AVAILABLE" /\ cur.search = "ok") =>
        IF TitleWasOpen
        THEN cur.requests = <<>> /\ updates_found = cur.updates0
        ELSE cur.requests = TheRequest

\* C2 amended: as C2, except that after a successful search that finds no such
\* title the one request is sent only if create_issue's own lookup of the target
\* repository succeeds; if that lookup fails, no request is sent.
C2_ExistingSkipsElseOneRequest ==
    (~dry_run /\ IterationDone /\ cur.printed = "UPDATE AVAILABLE" /\ cur.search = "ok") =>
        IF TitleWasOpen
        THEN cur.requests = <<>> /\ updates_found = cur.updates0
        ELSE IF cur.create = "repo_error"
        THEN cur.requests = <<>>
        ELSE cur.requests = TheRequest

\* C2 witness: the search succeeded, found an open issue with the title, and the
\* plugin was skipped (an earlier iteration or run had created that issue)
C2_Witness ==
    /\ ~dry_run /\ IterationDone /\ cur.search = "ok" /\ TitleWasOpen
    /\ cur.create = "none"

\* C3: when a run that passed input validation reaches the summary, its exit
\* status is non-zero exactly if get_latest_version failed for at least one
\* plugin; search or creation failures alone leave it zero.
C3_ExitStatusIffResolutionFailure ==
    pc = "done" => (exit_code # 0 <=> hist.failed > 0)

\* C3 witness: a finished run whose last plugin met a search failure and then a
\* creation failure, with no resolution failure and exit status 0
C3_Witness ==
    /\ pc = "done" /\ exit_code = 0 /\ hist.resolved > 0
    /\ cur.search = "issues_error" /\ cur.create = "create_error"

\* What holds in every state after a resolution failure, and at the summary
ResolutionFailureHandled ==
    /\ (IterationDone /\ cur.latest = None) =>
          /\ errors = cur.errors0 + 1
          /\ updates_found = cur.updates0
          /\ ~cur.compared /\ cur.search = "none" /\ cur.create = "none"
          /\ cur.requests = <<>>
          /\ CallsMade \cap {"get_issues", "create_issue"} = {}
          /\ i = cur.idx + 1
          /\ pc \in {"loop", "done"}
    /\ pc \in {"loop", "done"} => hist.failed = errors /\ hist.resolved + errors = i - 1
    /\ pc = "done" => hist.resolved + errors = Len(plugins)

\* The steps main still has to take before the summary is printed: four per
\* plugin not yet begun (resolve, compare, search, create), fewer inside one
StepsLeft ==
    IF pc = "done" THEN 0
    ELSE 4 * (Len(plugins) + 1 - i)
         + (CASE pc = "loop" -> 3 [] pc = "compare" -> 2 [] pc = "search" -> 1
              [] OTHER -> 0)

\* In every state of the loop a step of main can be taken
LoopCanStep ==
    /\ pc = "loop" => i \in 1..(Len(plugins) + 1)
    /\ (pc = "loop" /\ i <= Len(plugins)) => RemoteAnswers(plugins[i]) # {}
    /\ pc \in {"compare", "search", "create"} => i \in 1..Len(plugins) /\ latest # None

\* A step taken inside the loop stays in the run and leaves fewer steps
TowardsSummary ==
    pc \in {"loop", "compare", "search", "create"} =>
        /\ pc' \in {"loop", "compare", "search", "create", "done"}
        /\ StepsLeft' < StepsLeft

\* C4: a resolution failure adds exactly one to errors, is followed by no
\* comparison, no issue search and no issue creation for that plugin, and the
\* loop goes on to the next plugin; a run in its loop can always take a step and
\* every step brings the summary nearer, where resolved + errors = number of
\* parsed plugins.
C4_ResolutionFailureSkipsPlugin ==
    /\ []ResolutionFailureHandled
    /\ []LoopCanStep
    /\ [][TowardsSummary]_vars

\* C4 witness: a run whose first plugin failed to resolve and whose later plugin
\* was resolved has reached the summary
C4_Witness ==
    /\ pc = "done" /\ errors = 1 /\ hist.resolved = 1
    /\ cur.idx = 2 /\ cur.latest # None

\* C5 as stated: when the search or the creation fails for an outdated plugin,
\* the run continues, errors is not incremented and updates_found is not
\* incremented for that plugin.
C5_AsStated ==
    (IterationDone /\ (cur.search \in {"repo_error", "issues_error"}
                       \/ cur.create \in {"repo_error", "create_error"})) =>
        /\ errors = cur.errors0
        /\ updates_found = cur.updates0
        /\ i = cur.idx + 1 /\ pc \in {"loop", "done"}

\* C5 amended: when the search or the creation fails for an outdated plugin, the
\* run continues with the next plugin, errors is not incremented, and
\* updates_found is incremented by one for that plugin.
C5_SoftFailureStillCounted ==
    (IterationDone /\ (cur.search \in {"repo_error", "issues_error"}
                       \/ cur.create \in {"repo_error", "create_error"})) =>
        /\ errors = cur.errors0
        /\ updates_found = cur.updates0 + 1
        /\ i = cur.idx + 1 /\ pc \in {"loop", "done"}

\* C5 witness: the search succeeded and the creation failed
C5_Witness ==
    IterationDone /\ cur.search = "ok" /\ cur.create = "create_error"

\* C6: over all runs and plugins, no create-issue request carries a title for
\* which an open issue labelled version-update already exists, and the tracker
\* never holds two open issues with the same title, also when the search fails.
C6_IdempotentByTitle ==
    /\ \A k \in 1..Len(cur.requests) : ~BagIn(cur.requests[k].title, cur.tracker0)
    /\ \A t \in BagToSet(tracker) : CopiesIn(t, tracker) <= 1

\* ------------------------------------------------------------ the parser

FirstNonEmpty(versions) ==
    LET filled == {k \in 1..Len(versions) : versions[k] # <<>>}
    IN  IF filled = {} THEN <<>> ELSE versions[Min(filled)]

\* C7 as stated: is_commit_hash is true exactly if the first non-empty recorded
\* version matches ^[0-9a-f]{7,}$.
C7_AsStated ==
    pc = "loop" =>
        \A k \in 1..Len(plugins) :
            plugins[k].is_commit_hash <=> MatchesCommitHash(FirstNonEmpty(plugins[k].versions))

\* C7 amended: is_commit_hash is true exactly if the first recorded version (the
\* first version cell, blank or not) is non-empty and matches ^[0-9a-f]{7,}$; a
\* row whose first version cell is blank is release-tracked whatever follows.
C7_FirstCellDecides ==
    pc = "loop" =>
        \A k \in 1..Len(plugins) :
            LET first == Head(plugins[k].versions)
            IN  plugins[k].is_commit_hash <=>
                    (Len(first) >= 7 /\ \A c \in 1..Len(first) : first[c] \in HexLower)

\* C7 witness: a parsed row with a blank first cell and a hash in a later cell,
\* and a parsed commit-tracked row
C7_Witness ==
    /\ pc = "loop"
    /\ \E k \in 1..Len(plugins) :
          /\ Head(plugins[k].versions) = <<>>
          /\ MatchesCommitHash(FirstNonEmpty(plugins[k].versions))
    /\ \E k \in 1..Len(plugins) : plugins[k].is_commit_hash

\* ---------------------------------------------------------- the comparator

\* Component k of a release, zero where the release is shorter
Component(r, k) == IF k <= Len(r) THEN r[k] ELSE 0

\* a < b in version order, components compared left to right as numbers
VersionBefore(a, b) ==
    \E k \in 1..(Len(a) + Len(b)) :
        /\ \A j \in 1..(k - 1) : Component(a, j) = Component(b, j)
        /\ Component(a, k) < Component(b, k)

\* The entry v is outdated against l, as the claim defines it
OutdatedEntry(v, l, commit_mode) ==
    IF commit_mode THEN Lower(v) # Lower(l)
    ELSE IF ParseVersion(v).valid /\ ParseVersion(l).valid
    THEN VersionBefore(ParseVersion(v).release, ParseVersion(l).release)
    ELSE v # l

\* C8: for a resolved plugin, 'update available' is reported exactly if some
\* non-empty recorded version is outdated against the latest one: different
\* ignoring case in commit mode; older in version order in release mode, or
\* unequal as strings when one of the two does not parse. Every comparison
\* yields a verdict (OK or UPDATE AVAILABLE).
C8_UpdateIffSomeEntryOutdated ==
    (cur.idx > 0 /\ cur.compared) =>
        /\ cur.printed \in {"OK", "UPDATE AVAILABLE"}
        /\ cur.printed = "UPDATE AVAILABLE" <=>
              \E k \in 1..Len(CurPlugin.versions) :
                  /\ CurPlugin.versions[k] # <<>>
                  /\ OutdatedEntry(CurPlugin.versions[k], cur.latest,
                                   CurPlugin.is_commit_hash)

\* C8 witness: a release-tracked plugin with a recorded version newer than the
\* latest one was reported OK
C8_Witness ==
    /\ cur.idx > 0 /\ cur.compared /\ cur.printed = "OK"
    /\ ~CurPlugin.is_commit_hash
    /\ \E k \in 1..Len(CurPlugin.versions) :
          /\ ParseVersion(CurPlugin.versions[k]).valid
          /\ VersionBefore(ParseVersion(cur.latest).release,
                           ParseVersion(CurPlugin.versions[k]).release)

\* ------------------------------------------------------- the table block

\* The lines of the versions file, each without its surrounding blanks
FileLines ==
    LET raw == Split(content, "\n") IN [k \in 1..Len(raw) |-> Strip(raw[k])]

IsHeaderOrSeparator(line) ==
    StartsWith(line, HeaderPrefix) \/ StartsWith(line, SeparatorPrefix)

\* The index of the first header or separator line; 0 if there is none
TableStart(lines) ==
    LET hs == {k \in 1..Len(lines) : IsHeaderOrSeparator(lines[k])}
    IN  IF hs = {} THEN 0 ELSE Min(hs)

\* The index of the first line after the table's start that does not start with
\* '|'; one past the last line if there is none
TableEnd(lines) ==
    LET nonrows == {k \in (TableStart(lines) + 1)..Len(lines) :
                       lines[k] = <<>> \/ lines[k][1] # "|"}
    IN  IF nonrows = {} THEN Len(lines) + 1 ELSE Min(nonrows)

\* A row line that the claim says yields a record: a first cell and at least
\* one version cell between its delimiters, no no-source marker in the first
\* cell, a markdown link in it, and a link URL with owner and repository
YieldsRecord(line) ==
    LET cells == Cells(line)
    IN  /\ Len(cells) >= 2
        /\ ~Contains(cells[1], NoSrcMarker)
        /\ SearchLink(cells[1]).matched
        /\ SearchGithub(RStripChar(SearchLink(cells[1]).group2, "/")).matched

\* The indices, in file order, of the row lines of the block that yield a record
RecordLines(lines) ==
    LET first == TableStart(lines)
        last  == TableEnd(lines)
    IN  IF first = 0 THEN <<>>
        ELSE SelectSeq([k \in 1..Len(lines) |-> k],
                       LAMBDA k : /\ k > first
                                  /\ k < last
                                  /\ ~IsHeaderOrSeparator(lines[k])
                                  /\ YieldsRecord(lines[k]))

\* C9: parse_readme returns, in table order, exactly one record for each row
\* line of the contiguous table block (after the first header or separator
\* line, before the first following line that does not start with '|') that has
\* a first cell and a version cell, no no-source marker, a markdown link and a
\* hosting URL with owner and repository; no other line yields a record; every
\* record has a non-empty owner, repo and list of recorded versions.
C9_OneRecordPerQualifyingRow ==
    pc = "loop" =>
        LET lines == FileLines
            recs  == RecordLines(lines)
        IN  /\ Len(plugins) = Len(recs)
            /\ \A j \in 1..Len(plugins) :
                  LET cells == Cells(lines[recs[j]])
                      link  == SearchLink(cells[1])
                  IN  /\ plugins[j].name = link.group1
                      /\ plugins[j].github_url = RStripChar(link.group2, "/")
                      /\ plugins[j].versions = Tail(cells)
                      /\ plugins[j].owner # <<>>
                      /\ plugins[j].repo # <<>>
                      /\ plugins[j].versions # <<>>

\* C9 witness: a file with a qualifying row before the header and a qualifying
\* row inside the block, parsed to the one record of the block
C9_Witness ==
    /\ pc = "loop"
    /\ Len(plugins) = 1
    /\ LET lines == FileLines
       IN  \E k \in 1..(TableStart(lines) - 1) : YieldsRecord(lines[k])

\* ------------------------------------------------------------ the resolver

\* s without one leading lowercase 'v'
WithoutVPrefix(s) == IF s # <<>> /\ s[1] = "v" THEN Tail(s) ELSE s

\* C10: in release mode get_latest_version returns the latest release's tag; on
\* a 404 from the release lookup with at least one tag, the first listed tag;
\* in every other case of remote failure None; the returned name is the tag
\* without its leading lowercase 'v' prefix.
C10_ReleaseTagWithoutVPrefix ==
    (answer.repo # "unasked" /\ ~CurPlugin.is_commit_hash) =>
        cur.latest =
            IF answer.repo = "error" THEN None
            ELSE IF answer.release.ok THEN WithoutVPrefix(answer.release.tag)
            ELSE IF /\ answer.release.status = StatusNotFound
                    /\ answer.tags.ok
                    /\ Len(answer.tags.names) >= 1
            THEN WithoutVPrefix(answer.tags.names[1])
            ELSE None
====
